---- MODULE Spec2Model ----
(***************************************************************************)
(* Model of the 1-shot agent pipeline of agents/oneshot/oneshot_agent.py:  *)
(* extract_scripts, save_scripts, run_script, delete_conda_env,            *)
(* generate_and_run_scripts and main.                                      *)
(*                                                                         *)
(* Text is modelled line by line.  A line is a record                      *)
(*   [ind |-> leading whitespace?, key |-> ..., val |-> ...]               *)
(*   key = "fence": a fence line, val is its tag ("" for a bare fence)     *)
(*   key = "name" : the line  name: val  (val = "" for  name:  alone)      *)
(*   key = ""     : a line holding only the word val; blank when val = ""  *)
(*   other key    : any other line  key: val                               *)
(* The regular expressions of the source are modelled by what they match   *)
(* on such lines.                                                          *)
(***************************************************************************)
EXTENDS Integers, Sequences, FiniteSets, TLC

VARIABLES
    pc,                \* position in main / generate_and_run_scripts
    run_name,          \* main: run_name
    response_content,  \* generate_and_run_scripts: response_content
    scripts,           \* outcome of extract_scripts (train_script, inference_script, env_yaml)
    files,             \* the files of the work directory
    envs,              \* names of the conda environments that exist
    log,               \* the steps this run has invoked, in order
    result,            \* value returned by generate_and_run_scripts (-1: none yet)
    exc,               \* exception propagating out of generate_and_run_scripts ("" : none)
    exit_code,         \* exit status of the process (-1: still running)
    jobs,              \* the run_script calls of this run: command, activation, outcome
    peer,              \* position of another run of main going on at the same time
    dictionary,        \* utils.py: the dictionary handed to parse_env_var_values
    given,             \* utils.py: that dictionary as it was when handed over
    environ,           \* utils.py: os.environ, for each name where its value comes from
    parsed             \* utils.py: how parse_env_var_values ended

utilVars == <<dictionary, given, environ, parsed>>

vars == <<pc, run_name, response_content, scripts, files, envs, log, result, exc, exit_code,
          jobs, peer, utilVars>>

---------------------------------------------------------------------------
(* Bounds *)

MaxChunks == 4     \* response texts of the extraction specification: number of chunks
MaxLines  == 3     \* environment specs of the materialization specification: number of lines

---------------------------------------------------------------------------
(* Lines and texts *)

L(k, v) == [ind |-> FALSE, key |-> k, val |-> v]
Indented(l) == [l EXCEPT !.ind = TRUE]

FENCE == "fence"
IsFence(l) == l.key = FENCE
IsBlank(l) == l.key = "" /\ l.val = ""

PY    == L(FENCE, "python")
YAML  == L(FENCE, "yaml")
YML   == L(FENCE, "yml")
BASH  == L(FENCE, "bash")
F     == L(FENCE, "")

CodeA == L("import", "a")
CodeB == L("import", "b")
Deps  == L("dependencies", "")

RunIds == {"oneshot", "r2"}

\* oneshot_agent.py:60 and :92: env_name is run_name followed by _env
EnvName(r) == IF r = "oneshot" THEN "oneshot_env" ELSE "r2_env"

SeqsUpTo(S, n) == UNION {[1..k -> S] : k \in 0..n}

RECURSIVE Flatten(_)
Flatten(ss) == IF ss = <<>> THEN <<>> ELSE Head(ss) \o Flatten(Tail(ss))

---------------------------------------------------------------------------
(* extract_scripts *)

\* re: the whitespace run before the group eats the blank lines and the indentation that
\* open the content of the block
RECURSIVE LStrip(_)
LStrip(ls) ==
    IF ls = <<>> THEN <<>>
    ELSE IF IsBlank(Head(ls)) THEN LStrip(Tail(ls))
    ELSE <<[Head(ls) EXCEPT !.ind = FALSE]>> \o Tail(ls)

\* a greedy group: the match runs to the last three backticks of the text
NextFence_greedy(text, i) ==
    LET js == {j \in (i + 1)..Len(text) : IsFence(text[j])}
    IN  IF js = {} THEN 0 ELSE CHOOSE j \in js : \A k \in js : j >= k

\* the first fence line after position i, 0 when there is none: the non-greedy
\* group followed by three backticks stops at the first three backticks
NextFence(text, i) ==
    LET js == {j \in (i + 1)..Len(text) : IsFence(text[j])}
    IN  IF js = {} THEN 0 ELSE CHOOSE j \in js : \A k \in js : j <= k

\* re.findall of the pattern (fence TAG, whitespace, non-greedy group, fence)
\* with re.DOTALL, for TAG in tags, scanning from line i
RECURSIVE FindAllFrom(_, _, _)
FindAllFrom(tags, text, i) ==
    IF i > Len(text) THEN <<>>
    ELSE IF IsFence(text[i]) /\ text[i].val \in tags /\ NextFence(text, i) # 0
         THEN LET j == NextFence(text, i)
              IN  <<LStrip(SubSeq(text, i + 1, j - 1))>> \o FindAllFrom(tags, text, j + 1)
         ELSE FindAllFrom(tags, text, i + 1)

FindAll(tags, text) == FindAllFrom(tags, text, 1)

NoScripts(err) ==
    [ok |-> FALSE, err |-> err, train_script |-> <<>>, inference_script |-> <<>>, env_yaml |-> <<>>]

extract_scripts(response_text) ==
    LET python_blocks == FindAll({"python"}, response_text)
        yaml_blocks   == FindAll({"yaml", "yml"}, response_text)
    IN  IF Len(python_blocks) # 2
        THEN NoScripts("Expected two Python code blocks in the response")
        ELSE IF Len(yaml_blocks) # 1
        THEN NoScripts("Expected one YAML code block in the response")
        ELSE [ok |-> TRUE, err |-> "",
              train_script     |-> python_blocks[1],
              inference_script |-> python_blocks[2],
              env_yaml         |-> yaml_blocks[1]]

---------------------------------------------------------------------------
(* save_scripts: the name rewrite *)

\* re ^name: (MULTILINE): a line that starts with name:
IsNameLine(l) == ~l.ind /\ l.key = "name"

NameLine(env_name) == L("name", env_name)

\* re.search of ^name: whitespace* env_name whitespace* $ (MULTILINE): the
\* whitespace run also crosses line ends, so name: alone followed by blank
\* lines and then a line holding only env_name matches as well
NameIsSet(env_yaml, env_name) ==
    \E i \in 1..Len(env_yaml) :
        /\ IsNameLine(env_yaml[i])
        /\ \/ env_yaml[i].val = env_name
           \/ /\ env_yaml[i].val = ""
              /\ \E j \in (i + 1)..Len(env_yaml) :
                    /\ env_yaml[j].key = "" /\ env_yaml[j].val = env_name
                    /\ \A k \in (i + 1)..(j - 1) : IsBlank(env_yaml[k])

\* re.sub of every line ^name:.*$ by name: env_name (MULTILINE)
SubName(env_yaml, env_name) ==
    [i \in 1..Len(env_yaml) |->
        IF IsNameLine(env_yaml[i]) THEN NameLine(env_name) ELSE env_yaml[i]]

HasNameLine(env_yaml) == \E i \in 1..Len(env_yaml) : IsNameLine(env_yaml[i])

\* the name line prepended whatever the spec already holds
rewrite_env_name_prepend(env_yaml, r) == <<NameLine(EnvName(r))>> \o env_yaml

\* the missing name line put after the spec instead of before it
rewrite_env_name_append(env_yaml, r) ==
    LET env_name == EnvName(r)
    IN  IF ~NameIsSet(env_yaml, env_name)
        THEN LET replaced == SubName(env_yaml, env_name)
             IN  IF ~HasNameLine(replaced)
                 THEN replaced \o <<NameLine(env_name)>>
                 ELSE replaced
        ELSE env_yaml

rewrite_env_name(env_yaml, r) ==
    LET env_name == EnvName(r)
    IN  IF ~NameIsSet(env_yaml, env_name)
        THEN LET replaced == SubName(env_yaml, env_name)
             IN  IF ~HasNameLine(replaced)
                 THEN <<NameLine(env_name)>> \o replaced
                 ELSE replaced
        ELSE env_yaml

---------------------------------------------------------------------------
(* The work directory *)

FileNames == {"train.py", "inference.py", "environment.yaml", "submission.csv"}

NoFile == [exists |-> FALSE, content |-> <<>>]
File(c) == [exists |-> TRUE, content |-> c]

\* save_scripts (oneshot_agent.py:52-75): the three files it writes
save_scripts(fs, train_script, inference_script, env_yaml, r) ==
    [fs EXCEPT !["train.py"]         = File(train_script),
               !["inference.py"]     = File(inference_script),
               !["environment.yaml"] = File(rewrite_env_name(env_yaml, r))]

---------------------------------------------------------------------------
(* The responses the LLM may give in the pipeline specification *)

Block(tag, body) == <<tag>> \o body \o <<F>>

Prose == L("", "text")

TwoPython == <<Prose>> \o Block(PY, <<CodeA>>) \o <<Prose>> \o Block(PY, <<CodeB>>)

Responses ==
    { TwoPython \o Block(YAML, <<Deps>>),                          \* no name line
      TwoPython \o Block(YAML, <<L("name", "base"), Deps>>),       \* another name
      TwoPython \o Block(YML,  <<L("name", "oneshot_env"), Deps>>),\* the right name
      TwoPython \o Block(YAML, <<L("name", "base"), L("name", "other"), Deps>>),
      Block(PY, <<CodeA>>) \o Block(YAML, <<Deps>>),               \* one python block
      TwoPython,                                                   \* no yaml block
      TwoPython \o Block(PY, <<CodeA>>) \o Block(YAML, <<Deps>>),  \* three python blocks
      TwoPython \o <<YAML, Deps>> }                                \* yaml block cut short

ExitCodes == {0, 1}

Event(op, rc) == [op |-> op, rc |-> rc]

---------------------------------------------------------------------------
(* run_script *)

\* every command is built as for inference, with --input and --output
run_script_cmd_io(script_path, script_type, output_path, r, test_csv_no_labels_path) ==
    [bound |-> TRUE, env |-> EnvName(r), script |-> script_path,
     input |-> test_csv_no_labels_path, output |-> output_path]

\* oneshot_agent.py:79-82: the command line; "" stands for an option that the
\* command does not carry, and no branch binds cmd for another script_type
run_script_cmd(script_path, script_type, output_path, r, test_csv_no_labels_path) ==
    IF script_type = "inference"
    THEN [bound |-> TRUE, env |-> EnvName(r), script |-> script_path,
          input |-> test_csv_no_labels_path, output |-> output_path]
    ELSE IF script_type = "train"
    THEN [bound |-> TRUE, env |-> EnvName(r), script |-> script_path,
          input |-> "", output |-> ""]
    ELSE [bound |-> FALSE, env |-> "", script |-> "", input |-> "", output |-> ""]

\* the two commands joined by a semicolon: python runs whatever source activate did
run_script_semicolon(script_path, script_type, output_path, r, test_csv_no_labels_path, activated, script_rc) ==
    [script_type |-> script_type,
     cmd |-> run_script_cmd(script_path, script_type, output_path, r, test_csv_no_labels_path),
     activated |-> activated, started |-> TRUE, returncode |-> script_rc]

\* oneshot_agent.py:77-88: bash runs  source activate ENV && python SCRIPT ... :
\* python starts only when source activate exited 0, the status of the list is
\* that of the last command run, and subprocess.run (no check) returns it
run_script(script_path, script_type, output_path, r, test_csv_no_labels_path, activated, script_rc) ==
    [script_type |-> script_type,
     cmd |-> run_script_cmd(script_path, script_type, output_path, r, test_csv_no_labels_path),
     activated |-> activated, started |-> activated,
     returncode |-> IF activated THEN script_rc ELSE 1]

\* source activate can succeed only for an environment that exists
Activation(r, es) == IF EnvName(r) \in es THEN BOOLEAN ELSE {FALSE}

\* oneshot_agent.py:68-73: the files are written in this order
WriteOrder == <<"train.py", "inference.py", "environment.yaml">>

\* the work directory when the n first files of save_scripts have been written
WrittenUpTo(old, new, n) ==
    [f \in FileNames |->
        IF \E k \in 1..n : WriteOrder[k] = f THEN new[f] ELSE old[f]]

---------------------------------------------------------------------------
(* main and generate_and_run_scripts *)

Init ==
    /\ pc = "llm"
    /\ run_name = "oneshot"
    /\ response_content = <<>>
    /\ scripts = NoScripts("")
    /\ files = [f \in FileNames |-> NoFile]
    /\ envs = {}
    /\ log = <<>>
    /\ result = -1
    /\ exc = ""
    /\ exit_code = -1
    /\ jobs = <<>>
    /\ peer = "idle"
    /\ dictionary = <<>>
    /\ given = <<>>
    /\ environ = <<>>
    /\ parsed = [status |-> "", env_var |-> ""]

\* oneshot_agent.py:173: response_content = get_llm_response(...); an error of
\* the client (oneshot_agent.py:34) is caught nowhere
GetLLMResponse ==
    /\ pc = "llm"
    /\ \/ /\ \E r \in Responses : response_content' = r
          /\ log' = Append(log, Event("llm", 0))
          /\ pc' = "extract"
          /\ UNCHANGED exc
       \/ /\ log' = Append(log, Event("llm", 1))
          /\ pc' = "raised"
          /\ exc' = "LLMError"
          /\ UNCHANGED response_content
    /\ UNCHANGED <<run_name, scripts, files, envs, result, exit_code, jobs, peer, utilVars>>

\* the extraction error swallowed: the run goes on with what it has
Extract_unchecked ==
    /\ pc = "extract"
    /\ scripts' = extract_scripts(response_content)
    /\ log' = Append(log, Event("extract", IF scripts'.ok THEN 0 ELSE 1))
    /\ pc' = "save"
    /\ UNCHANGED <<run_name, response_content, files, envs, result, exc, exit_code, jobs, peer, utilVars>>

\* oneshot_agent.py:176-180
Extract ==
    /\ pc = "extract"
    /\ scripts' = extract_scripts(response_content)
    /\ log' = Append(log, Event("extract", IF scripts'.ok THEN 0 ELSE 1))
    /\ IF scripts'.ok
       THEN pc' = "save" /\ UNCHANGED result
       ELSE pc' = "returned" /\ result' = 1
    /\ UNCHANGED <<run_name, response_content, files, envs, exc, exit_code, jobs, peer, utilVars>>

\* the error of save_scripts swallowed: the run goes on to conda env create
SaveScripts_swallow ==
    /\ pc = "save"
    /\ \E n \in 0..Len(WriteOrder) :
        /\ files' = WrittenUpTo(files,
                        save_scripts(files, scripts.train_script, scripts.inference_script,
                                     scripts.env_yaml, run_name), n)
        /\ log' = Append(log, Event("save", IF n = Len(WriteOrder) THEN 0 ELSE 1))
        /\ pc' = "create"
    /\ UNCHANGED <<run_name, response_content, scripts, envs, result, exc, exit_code, jobs, peer, utilVars>>

\* oneshot_agent.py:182-184; os.makedirs or one of the three open/write pairs of
\* save_scripts (oneshot_agent.py:54, 68-73) may raise OSError after n files,
\* and nothing catches it
SaveScripts ==
    /\ pc = "save"
    /\ \E n \in 0..Len(WriteOrder) :
        /\ files' = WrittenUpTo(files,
                        save_scripts(files, scripts.train_script, scripts.inference_script,
                                     scripts.env_yaml, run_name), n)
        /\ IF n = Len(WriteOrder)
           THEN /\ log' = Append(log, Event("save", 0))
                /\ pc' = "create"
                /\ UNCHANGED exc
           ELSE /\ log' = Append(log, Event("save", 1))
                /\ pc' = "raised"
                /\ exc' = "OSError"
    /\ UNCHANGED <<run_name, response_content, scripts, envs, result, exit_code, jobs, peer, utilVars>>

\* the status of conda env create not looked at
CreateEnv_unchecked ==
    /\ pc = "create"
    /\ \E rc \in ExitCodes :
        /\ log' = Append(log, Event("create", rc))
        /\ pc' = "train"
        /\ envs' = IF rc = 0 THEN envs \cup {EnvName(run_name)} ELSE envs
    /\ UNCHANGED <<run_name, response_content, scripts, files, result, exc, exit_code, jobs, peer, utilVars>>

\* oneshot_agent.py:186-193: conda env create -f environment.yaml
CreateEnv ==
    /\ pc = "create"
    /\ \E rc \in ExitCodes :
        /\ log' = Append(log, Event("create", rc))
        /\ IF rc # 0
           THEN pc' = "returned" /\ result' = 1 /\ UNCHANGED envs
           ELSE /\ pc' = "train"
                /\ envs' = envs \cup {EnvName(run_name)}
                /\ UNCHANGED result
    /\ UNCHANGED <<run_name, response_content, scripts, files, exc, exit_code, jobs, peer, utilVars>>

\* a training failure that returns 1 without delete_conda_env
Train_no_cleanup ==
    /\ pc = "train"
    /\ \E activated \in Activation(run_name, envs), script_rc \in ExitCodes :
        LET job == run_script("train.py", "train", "None", run_name, "None",
                              activated, script_rc)
        IN  /\ jobs' = Append(jobs, job)
            /\ log' = Append(log, Event("train", job.returncode))
            /\ IF job.returncode # 0
               THEN pc' = "returned" /\ result' = 1
               ELSE pc' = "inference" /\ UNCHANGED result
    /\ UNCHANGED <<run_name, response_content, scripts, files, envs, exc, exit_code, peer, utilVars>>

\* a failed training run once more
Train_retry ==
    /\ pc = "train"
    /\ \E activated \in Activation(run_name, envs), script_rc \in ExitCodes :
        LET job == run_script("train.py", "train", "None", run_name, "None",
                              activated, script_rc)
        IN  /\ jobs' = Append(jobs, job)
            /\ log' = Append(log, Event("train", job.returncode))
            /\ pc' = IF job.returncode = 0 THEN "inference"
                     ELSE IF Len(jobs) = 0 THEN "train" ELSE "delete_203"
    /\ UNCHANGED <<run_name, response_content, scripts, files, envs, result, exc, exit_code, peer, utilVars>>

\* oneshot_agent.py:195-204: run_script(train); a failure goes to the
\* delete_conda_env of line 203
Train ==
    /\ pc = "train"
    /\ \E activated \in Activation(run_name, envs), script_rc \in ExitCodes :
        LET job == run_script("train.py", "train", "None", run_name, "None",
                              activated, script_rc)
        IN  /\ jobs' = Append(jobs, job)
            /\ log' = Append(log, Event("train", job.returncode))
            /\ pc' = IF job.returncode # 0 THEN "delete_203" ELSE "inference"
    /\ UNCHANGED <<run_name, response_content, scripts, files, envs, result, exc, exit_code, peer, utilVars>>

\* the exit code of inference not looked at
Inference_unchecked ==
    /\ pc = "inference"
    /\ \E activated \in Activation(run_name, envs), script_rc \in ExitCodes, wrote \in BOOLEAN :
        LET job == run_script("inference.py", "inference", "submission.csv", run_name,
                              "test_features.csv", activated, script_rc)
        IN  /\ jobs' = Append(jobs, job)
            /\ log' = Append(log, Event("inference", job.returncode))
            /\ files' = IF wrote /\ job.started
                        THEN [files EXCEPT !["submission.csv"] = File(<<L("", "target")>>)]
                        ELSE files
            /\ pc' = "delete_219"
    /\ UNCHANGED <<run_name, response_content, scripts, envs, result, exc, exit_code, peer, utilVars>>

\* oneshot_agent.py:206-216: run_script(inference); a script that was started
\* may or may not have written the file at output_path, whatever its exit code
Inference ==
    /\ pc = "inference"
    /\ \E activated \in Activation(run_name, envs), script_rc \in ExitCodes, wrote \in BOOLEAN :
        LET job == run_script("inference.py", "inference", "submission.csv", run_name,
                              "test_features.csv", activated, script_rc)
        IN  /\ jobs' = Append(jobs, job)
            /\ log' = Append(log, Event("inference", job.returncode))
            /\ files' = IF wrote /\ job.started
                        THEN [files EXCEPT !["submission.csv"] = File(<<L("", "target")>>)]
                        ELSE files
            /\ pc' = IF job.returncode # 0 THEN "delete_215" ELSE "delete_219"
    /\ UNCHANGED <<run_name, response_content, scripts, envs, result, exc, exit_code, peer, utilVars>>

\* conda env remove without check=True: its status is ignored
DeleteCondaEnv_unchecked ==
    /\ pc \in {"delete_203", "delete_215", "delete_219"}
    /\ \E rc \in ExitCodes :
        /\ log' = Append(log, Event("destroy", rc))
        /\ envs' = IF rc = 0 THEN envs \ {EnvName(run_name)} ELSE envs
        /\ pc' = "returned"
        /\ result' = IF pc = "delete_219" THEN 0 ELSE 1
    /\ UNCHANGED <<run_name, response_content, scripts, files, exc, exit_code, jobs, peer, utilVars>>

\* oneshot_agent.py:90-93 called from lines 203, 215 and 219: conda env remove
\* under check=True, so that a non-zero status raises CalledProcessError, which
\* nothing catches; lines 204, 216 and 220 return after it
DeleteCondaEnv ==
    /\ pc \in {"delete_203", "delete_215", "delete_219"}
    /\ \E rc \in ExitCodes :
        /\ log' = Append(log, Event("destroy", rc))
        /\ IF rc # 0
           THEN /\ pc' = "raised"
                /\ exc' = "CalledProcessError"
                /\ UNCHANGED <<envs, result>>
           ELSE /\ pc' = "returned"
                /\ envs' = envs \ {EnvName(run_name)}
                /\ result' = IF pc = "delete_219" THEN 0 ELSE 1
                /\ UNCHANGED exc
    /\ UNCHANGED <<run_name, response_content, scripts, files, exit_code, jobs, peer, utilVars>>

\* oneshot_agent.py:253-257, and the interpreter ending on an uncaught exception
MainExit ==
    /\ pc \in {"returned", "raised"}
    /\ exit_code' = IF pc = "raised" \/ result # 0 THEN 1 ELSE 0
    /\ pc' = "exited"
    /\ UNCHANGED <<run_name, response_content, scripts, files, envs, log, result, exc, jobs, peer, utilVars>>

Next ==
    \/ GetLLMResponse
    \/ Extract
    \/ SaveScripts
    \/ CreateEnv
    \/ Train
    \/ Inference
    \/ DeleteCondaEnv
    \/ MainExit

Spec == Init /\ [][Next]_vars

---------------------------------------------------------------------------
(* Two runs of main at the same time, or one after the other.  main gives    *)
(* every run the run_name "oneshot" (oneshot_agent.py:238), so the other run  *)
(* works on the same environment name.  Of the other run only the steps that  *)
(* touch the environment are kept.  What conda env create does for a name     *)
(* that exists is left open: either status may come back.                     *)

pipeVars == <<pc, run_name, response_content, scripts, files, log, result, exc, exit_code, jobs>>

\* oneshot_agent.py:186-193 in the other run
PeerCreate ==
    /\ peer = "idle"
    /\ \E rc \in ExitCodes :
        IF rc # 0
        THEN peer' = "ended" /\ UNCHANGED envs
        ELSE peer' = "jobs" /\ envs' = envs \cup {EnvName("oneshot")}
    /\ UNCHANGED <<pipeVars, utilVars>>

\* oneshot_agent.py:195-216 in the other run: training and inference
PeerJobs ==
    /\ peer = "jobs"
    /\ peer' = "delete"
    /\ UNCHANGED <<pipeVars, envs, utilVars>>

\* oneshot_agent.py:90-93 in the other run
PeerDelete ==
    /\ peer = "delete"
    /\ \E rc \in ExitCodes :
        /\ envs' = IF rc = 0 THEN envs \ {EnvName("oneshot")} ELSE envs
        /\ peer' = "ended"
    /\ UNCHANGED <<pipeVars, utilVars>>

NextRuns ==
    \/ Next
    \/ PeerCreate
    \/ PeerJobs
    \/ PeerDelete

SpecRuns == Init /\ [][NextRuns]_vars

---------------------------------------------------------------------------
(* extract_scripts on its own: every response text of up to MaxChunks chunks *)

\* closed blocks, blocks cut short, lone fence lines and prose
Chunks ==
    { Block(PY, <<CodeA>>), Block(PY, <<CodeB>>), Block(YAML, <<Deps>>),
      Block(YML, <<L("", ""), Indented(Deps)>>), Block(BASH, <<CodeA>>),
      <<PY, CodeA>>, <<YAML, Deps>>, <<PY>>, <<F>>, <<Prose>> }

InitExtract ==
    /\ pc = "extract"
    /\ run_name = "oneshot"
    /\ response_content \in {Flatten(cs) : cs \in SeqsUpTo(Chunks, MaxChunks)}
    /\ scripts = NoScripts("")
    /\ files = [f \in FileNames |-> NoFile]
    /\ envs = {}
    /\ log = <<Event("llm", 0)>>
    /\ result = -1
    /\ exc = ""
    /\ exit_code = -1
    /\ jobs = <<>>
    /\ peer = "idle"
    /\ dictionary = <<>>
    /\ given = <<>>
    /\ environ = <<>>
    /\ parsed = [status |-> "", env_var |-> ""]

SpecExtract == InitExtract /\ [][Extract]_vars

---------------------------------------------------------------------------
(* save_scripts on its own: every environment spec of up to MaxLines lines *)
(* that extract_scripts can hand over, for every run name                  *)

YamlLines ==
    { L("name", ""), L("name", "base"), L("name", "oneshot_env"), L("name", "r2_env"),
      Indented(L("", "oneshot_env")), Indented(L("name", "base")), Deps, L("", "") }

InitSave ==
    /\ pc = "save"
    /\ run_name \in RunIds
    /\ response_content = <<>>
    /\ \E y \in {z \in SeqsUpTo(YamlLines, MaxLines) : LStrip(z) = z} :
          scripts = [ok |-> TRUE, err |-> "", train_script |-> <<CodeA>>,
                     inference_script |-> <<CodeB>>, env_yaml |-> y]
    /\ files = [f \in FileNames |-> NoFile]
    /\ envs = {}
    /\ log = <<Event("llm", 0), Event("extract", 0)>>
    /\ result = -1
    /\ exc = ""
    /\ exit_code = -1
    /\ jobs = <<>>
    /\ peer = "idle"
    /\ dictionary = <<>>
    /\ given = <<>>
    /\ environ = <<>>
    /\ parsed = [status |-> "", env_var |-> ""]

SpecSave == InitSave /\ [][SaveScripts]_vars

---------------------------------------------------------------------------
(* utils.py: get_env_var, is_env_var, load_env_file_if_exists,              *)
(* parse_env_var_values.                                                    *)
(* A value of the dictionary is a record: type is "str" or "int"; a string  *)
(* holding a reference to variable name in namespace ns has ns # "", with   *)
(* pre / post telling whether text stands before / after the reference; a   *)
(* string without reference has ns = "" and its text in name.  The          *)
(* dictionary is the sequence of its values in iteration order, the keys    *)
(* are the positions.                                                       *)

MaxKeys == 3       \* number of keys of the dictionary

Names == {"A", "B"}

Ref(ns, n) == [type |-> "str", pre |-> FALSE, ns |-> ns, name |-> n, post |-> FALSE]
Text(t)    == [type |-> "str", pre |-> FALSE, ns |-> "", name |-> t, post |-> FALSE]

\* the string that os.getenv gives for variable n, set by origin
EnvValue(n, origin) == [type |-> "str", pre |-> FALSE, ns |-> "", name |-> n, post |-> FALSE,
                        origin |-> origin]

DictValues ==
    { Ref("secrets", "A"), Ref("env", "B"), Ref("vars", "A"),
      [Ref("secrets", "A") EXCEPT !.post = TRUE],
      [Ref("env", "B") EXCEPT !.pre = TRUE],
      Text("plain"),
      [Text("7") EXCEPT !.type = "int"] }

None == ""

\* utils.py:7-19: re.match anchors the pattern at the start of the value only
get_env_var(value) ==
    IF value.type # "str" THEN None
    ELSE IF ~value.pre /\ value.ns \in {"secrets", "env"} THEN value.name
    ELSE None

\* utils.py:22-23
is_env_var(value) == get_env_var(value) # None

\* utils.py:26-47: load_dotenv sets the variables of the .env file that the
\* process has not set; dotenv is the set of names the file defines, empty
\* when there is no file or no python-dotenv
load_env_file_if_exists(env, dotenv) ==
    [n \in Names |-> IF env[n] = "unset" /\ n \in dotenv THEN "dotenv" ELSE env[n]]

\* the loop left (break for continue) at the first value that is no reference
RECURSIVE parse_loop_break(_, _, _)
parse_loop_break(d, env, i) ==
    IF i > Len(d) THEN [dict |-> d, err |-> None]
    ELSE IF ~is_env_var(d[i]) THEN [dict |-> d, err |-> None]
    ELSE LET env_var == get_env_var(d[i])
         IN  IF env[env_var] = "unset"
             THEN [dict |-> d, err |-> env_var]
             ELSE parse_loop_break([d EXCEPT ![i] = EnvValue(env_var, env[env_var])], env, i + 1)

\* the value of os.getenv stored before it is looked at
RECURSIVE parse_loop_store_first(_, _, _)
parse_loop_store_first(d, env, i) ==
    IF i > Len(d) THEN [dict |-> d, err |-> None]
    ELSE IF ~is_env_var(d[i]) THEN parse_loop_store_first(d, env, i + 1)
    ELSE LET env_var == get_env_var(d[i])
             stored  == [d EXCEPT ![i] = EnvValue(env_var, env[env_var])]
         IN  IF env[env_var] = "unset"
             THEN [dict |-> stored, err |-> env_var]
             ELSE parse_loop_store_first(stored, env, i + 1)

\* utils.py:60-75: the loop over dictionary.items() from key i on; err names
\* the variable of the ValueError, None when the loop ends
RECURSIVE parse_loop(_, _, _)
parse_loop(d, env, i) ==
    IF i > Len(d) THEN [dict |-> d, err |-> None]
    ELSE IF ~is_env_var(d[i]) THEN parse_loop(d, env, i + 1)
    ELSE LET env_var == get_env_var(d[i])
         IN  IF env[env_var] = "unset"
             THEN [dict |-> d, err |-> env_var]
             ELSE parse_loop([d EXCEPT ![i] = EnvValue(env_var, env[env_var])], env, i + 1)

\* utils.py:50-75
parse_env_var_values ==
    /\ pc = "utils"
    /\ parsed.status = ""
    /\ \E dotenv \in SUBSET Names :
        /\ environ' = load_env_file_if_exists(environ, dotenv)
        /\ LET out == parse_loop(dictionary, environ', 1)
           IN  /\ dictionary' = out.dict
               /\ parsed' = IF out.err = None
                            THEN [status |-> "returned", env_var |-> ""]
                            ELSE [status |-> "ValueError", env_var |-> out.err]
    /\ UNCHANGED <<pc, run_name, response_content, scripts, files, envs, log, result, exc,
                   exit_code, jobs, peer, given>>

InitParse ==
    /\ pc = "utils"
    /\ run_name = "oneshot"
    /\ response_content = <<>>
    /\ scripts = NoScripts("")
    /\ files = [f \in FileNames |-> NoFile]
    /\ envs = {}
    /\ log = <<>>
    /\ result = -1
    /\ exc = ""
    /\ exit_code = -1
    /\ jobs = <<>>
    /\ peer = "idle"
    /\ dictionary \in SeqsUpTo(DictValues, MaxKeys)
    /\ given = dictionary
    /\ environ \in [Names -> {"unset", "os"}]
    /\ parsed = [status |-> "", env_var |-> ""]

SpecParse == InitParse /\ [][parse_env_var_values]_vars

---------------------------------------------------------------------------
(* Properties *)

Calls(op) == Cardinality({i \in 1..Len(log) : log[i].op = op})
Invoked(op) == \E i \in 1..Len(log) : log[i].op = op
Exited(op, rc) == \E i \in 1..Len(log) : log[i] = Event(op, rc)
Failed(op) == \E i \in 1..Len(log) : log[i].op = op /\ log[i].rc # 0

Provisioned == Exited("create", 0)
RunEnded == pc \in {"returned", "raised", "exited"}
RunReturned == pc \in {"returned", "exited"} /\ exc = ""
Written(f) == files[f].exists
EnvYamlOut == files["environment.yaml"].content

\* C1: a run that reached Provisioned never invokes delete_conda_env twice, and
\* has invoked it exactly once when it ends, whichever of train and inference
\* failed or whether both succeeded.
C1_DestroyExactlyOnce ==
    Provisioned => /\ Calls("destroy") <= 1
                   /\ RunEnded => Calls("destroy") = 1

C1_Witness ==
    /\ pc = "exited" /\ Provisioned
    /\ Exited("train", 0) /\ Failed("inference")
    /\ Calls("destroy") = 1

\* C2: a failing destroy command does not overturn the outcome decided by
\* training and inference: the run still returns 0 when both succeeded and
\* still returns 1 when one of them failed.
C2_DestroyFailureKeepsOutcome ==
    RunEnded /\ Failed("destroy") =>
        /\ Exited("train", 0) /\ Exited("inference", 0) => result = 0
        /\ Failed("train") \/ Failed("inference") => result = 1

\* C3 (as stated): once a run that reached Provisioned has terminated, no
\* environment named after the run exists, whatever the external commands did.
C3_NoEnvAfterRun ==
    RunEnded /\ Provisioned => EnvName(run_name) \notin envs

\* C3 (amended): once a run that reached Provisioned has returned, with 0 or
\* with 1, delete_conda_env has been invoked and no environment named after the
\* run exists.
C3_NoEnvAfterReturn ==
    RunReturned /\ Provisioned =>
        /\ Invoked("destroy")
        /\ EnvName(run_name) \notin envs

C3_Witness ==
    /\ pc = "exited" /\ Provisioned /\ Failed("train")
    /\ result = 1 /\ EnvName(run_name) \notin envs

\* C4: the run succeeds only if the submission file exists; when inference
\* exits 0 and the file is missing the run invokes destroy and reports Failed.
C4_SuccessNeedsSubmission ==
    /\ result = 0 => Written("submission.csv")
    /\ RunEnded /\ Exited("inference", 0) /\ ~Written("submission.csv") =>
            Calls("destroy") = 1 /\ result # 0

\* C5: when conda env create returns non-zero the run returns 1, the process
\* exits with 1, and neither destroy nor training nor inference is ever invoked.
C5_CreateFailureIsTerminal ==
    Failed("create") =>
        /\ ~Invoked("destroy") /\ ~Invoked("train") /\ ~Invoked("inference")
        /\ RunReturned /\ result = 1
        /\ pc = "exited" => exit_code = 1

C5_Witness == pc = "exited" /\ Failed("create") /\ exit_code = 1

\* C6: when training exits non-zero, inference is never invoked, destroy is
\* invoked and the run returns 1.
C6_TrainFailureSkipsInference ==
    Failed("train") =>
        /\ ~Invoked("inference")
        /\ RunEnded => Calls("destroy") = 1 /\ result = 1

---------------------------------------------------------------------------
(* The fenced blocks of a text, read as one pass over it: a block opens at a   *)
(* fence line met outside a block and closes at the next bare fence line; a    *)
(* block that no bare fence closes runs to the end of the text.                *)

NextBareFence(text, i) ==
    LET js == {j \in (i + 1)..Len(text) : text[j] = F}
    IN  IF js = {} THEN 0 ELSE CHOOSE j \in js : \A k \in js : j <= k

RECURSIVE FencedBlocksFrom(_, _)
FencedBlocksFrom(text, i) ==
    IF i > Len(text) THEN <<>>
    ELSE IF ~IsFence(text[i]) THEN FencedBlocksFrom(text, i + 1)
    ELSE LET j == NextBareFence(text, i)
         IN  IF j = 0
             THEN <<[tag |-> text[i].val, closed |-> FALSE,
                     body |-> SubSeq(text, i + 1, Len(text))]>>
             ELSE <<[tag |-> text[i].val, closed |-> TRUE,
                     body |-> SubSeq(text, i + 1, j - 1)]>>
                  \o FencedBlocksFrom(text, j + 1)

FencedBlocks(text) == FencedBlocksFrom(text, 1)

IsPythonBlock(b) == b.tag = "python"
IsYamlBlock(b) == b.tag \in {"yaml", "yml"}
PythonBlocks(text) == SelectSeq(FencedBlocks(text), IsPythonBlock)
YamlBlocks(text) == SelectSeq(FencedBlocks(text), IsYamlBlock)

\* every block is closed by a bare fence line of its own and holds no fence line
WellFenced(text) ==
    \A n \in 1..Len(FencedBlocks(text)) :
        LET b == FencedBlocks(text)[n]
        IN  b.closed /\ \A k \in 1..Len(b.body) : ~IsFence(b.body[k])

ExtractDone == Invoked("extract")

ExtractMatchesBlocks(text) ==
    LET py == PythonBlocks(text)
        ya == YamlBlocks(text)
    IN  /\ scripts.ok <=> (Len(py) = 2 /\ Len(ya) = 1)
        /\ scripts.ok => /\ scripts.train_script = LStrip(py[1].body)
                         /\ scripts.inference_script = LStrip(py[2].body)
                         /\ scripts.env_yaml = LStrip(ya[1].body)
        /\ ~scripts.ok => /\ scripts.err # ""
                          /\ scripts.train_script = <<>>
                          /\ scripts.inference_script = <<>>
                          /\ scripts.env_yaml = <<>>

C8_ExtractFailureTouchesNothing ==
    Failed("extract") =>
        /\ RunReturned /\ result = 1
        /\ \A f \in FileNames : ~Written(f)
        /\ envs = {}
        /\ \A op \in {"save", "create", "train", "inference", "destroy"} : ~Invoked(op)

C8_Witness ==
    /\ pc = "exited" /\ Failed("extract") /\ exit_code = 1
    /\ Len(FindAll({"python"}, response_content)) = 1

TopLevelNames(env_yaml) == {i \in 1..Len(env_yaml) : IsNameLine(env_yaml[i])}

\* the name that the name line at i declares; in YAML a name line without a
\* value takes the indented word that follows it as its value
DeclaredName(env_yaml, i) ==
    IF /\ env_yaml[i].val = ""
       /\ i < Len(env_yaml)
       /\ env_yaml[i + 1].ind /\ env_yaml[i + 1].key = ""
    THEN env_yaml[i + 1].val
    ELSE env_yaml[i].val

\* C9: the environment spec written by save_scripts holds exactly one top-level
\* name declaration, and it declares the name of the environment of the run.
C9_ExactlyOneName ==
    Written("environment.yaml") =>
        /\ Cardinality(TopLevelNames(EnvYamlOut)) = 1
        /\ \A i \in TopLevelNames(EnvYamlOut) :
                DeclaredName(EnvYamlOut, i) = EnvName(run_name)

\* C10: the name rewrite is idempotent: rewriting the written spec again gives
\* the written spec, and a spec that already holds the line naming the
\* environment of the run is written unchanged.
C10_RewriteIdempotent ==
    Written("environment.yaml") =>
        /\ rewrite_env_name(EnvYamlOut, run_name) = EnvYamlOut
        /\ (\E i \in 1..Len(scripts.env_yaml) : scripts.env_yaml[i] = NameLine(EnvName(run_name)))
                => EnvYamlOut = scripts.env_yaml

C10_Witness ==
    /\ Written("environment.yaml")
    /\ EnvYamlOut # scripts.env_yaml
    /\ \E i \in 1..Len(scripts.env_yaml) : IsNameLine(scripts.env_yaml[i])
    /\ rewrite_env_name(EnvYamlOut, run_name) = EnvYamlOut

---------------------------------------------------------------------------
(* Properties of the run as a whole *)

AllSucceeded ==
    /\ Exited("extract", 0) /\ Exited("create", 0)
    /\ Exited("train", 0) /\ Exited("inference", 0)
    /\ Invoked("destroy")

\* C11: the run returns 0, and the process exits with 0, only if extraction,
\* environment creation, training and inference all succeeded and destroy was
\* invoked; every other run that terminates reports a failure (no return of 0,
\* exit status 1).
C11_SuccessOnlyIfAllSucceeded ==
    /\ (result = 0 \/ exit_code = 0) => AllSucceeded
    /\ pc = "exited" /\ ~AllSucceeded => exit_code = 1 /\ result # 0

C11_Witness == pc = "exited" /\ exit_code = 0 /\ result = 0 /\ AllSucceeded

\* C12: in every run_script call the command names the environment of the run
\* and the python script starts only if source activate succeeded; when it
\* fails the script is not started and run_script returns a non-zero code, which
\* the run receives as a value: no exception comes out of run_script.
C12_ScriptOnlyInNamedEnv ==
    /\ \A i \in 1..Len(jobs) :
            /\ jobs[i].cmd.env = EnvName(run_name)
            /\ jobs[i].started => jobs[i].activated
            /\ ~jobs[i].activated =>
                    /\ ~jobs[i].started
                    /\ jobs[i].returncode # 0
                    /\ Exited(jobs[i].script_type, jobs[i].returncode)
    /\ jobs # <<>> /\ exc # "" => exc = "CalledProcessError" /\ Failed("destroy")

C12_Witness ==
    /\ pc = "exited" /\ result = 1
    /\ Len(jobs) = 2 /\ jobs[1].started /\ ~jobs[2].activated /\ ~jobs[2].started

Rank(op) ==
    CASE op = "llm" -> 1 [] op = "extract" -> 2 [] op = "save" -> 3 [] op = "create" -> 4
      [] op = "train" -> 5 [] op = "inference" -> 6 [] op = "destroy" -> 7

\* C15: the steps of a run happen in the order LLM call, extract, materialize,
\* create, train, inference, destroy, each one after the one before it has
\* ended, and none of them is invoked twice.
C15_StepsInOrder ==
    /\ \A i, j \in 1..Len(log) : i < j => Rank(log[i].op) < Rank(log[j].op)
    /\ \A op \in {"llm", "create", "train", "inference"} : Calls(op) <= 1
    /\ Len(jobs) = Calls("train") + Calls("inference")

C15_Witness ==
    /\ pc = "exited" /\ Len(log) = 7
    /\ log[1].op = "llm" /\ log[7].op = "destroy"

\* C16: a run in which the LLM call fails, or in which save_scripts hits a
\* filesystem error, ends with that error: it never invokes create, train,
\* inference or destroy and no environment exists; a failing LLM call also
\* comes before any extraction and any file write.
C16_EarlyFailureAcquiresNothing ==
    /\ Failed("llm") =>
            /\ pc \in {"raised", "exited"} /\ exc = "LLMError" /\ result = -1
            /\ ~Invoked("extract") /\ ~Invoked("save")
            /\ \A f \in FileNames : ~Written(f)
    /\ Failed("save") =>
            /\ pc \in {"raised", "exited"} /\ exc = "OSError" /\ result = -1
    /\ Failed("llm") \/ Failed("save") =>
            /\ \A op \in {"create", "train", "inference", "destroy"} : ~Invoked(op)
            /\ envs = {} /\ jobs = <<>>
            /\ pc = "exited" => exit_code = 1

C16_Witness ==
    /\ pc = "exited" /\ Failed("save") /\ exc = "OSError"
    /\ Written("train.py") /\ ~Written("environment.yaml")

\* C17: for a source spec without top-level name line the written spec is the
\* line naming the environment of the run followed by the source lines, all
\* unchanged and in order, so that it holds that line once; train.py and
\* inference.py hold the two scripts as extracted.
C17_NamePrepended ==
    /\ Written("environment.yaml") /\ TopLevelNames(scripts.env_yaml) = {} =>
            /\ EnvYamlOut = <<NameLine(EnvName(run_name))>> \o scripts.env_yaml
            /\ Cardinality({i \in 1..Len(EnvYamlOut) :
                                EnvYamlOut[i] = NameLine(EnvName(run_name))}) = 1
    /\ Written("train.py") => files["train.py"].content = scripts.train_script
    /\ Written("inference.py") => files["inference.py"].content = scripts.inference_script

C17_Witness ==
    /\ Written("environment.yaml") /\ TopLevelNames(scripts.env_yaml) = {}
    /\ Len(scripts.env_yaml) = 2
    /\ scripts.env_yaml[2] = Indented(L("name", "base"))
    /\ Written("train.py") /\ Written("inference.py")

\* C18: every inference call carries the test features path as --input and the
\* submission path as --output, every training call carries neither, and
\* run_script is called for no other script type.
C18_JobArguments ==
    \A i \in 1..Len(jobs) :
        /\ jobs[i].script_type \in {"train", "inference"}
        /\ jobs[i].cmd.bound
        /\ jobs[i].script_type = "inference" =>
                /\ jobs[i].cmd.script = "inference.py"
                /\ jobs[i].cmd.input = "test_features.csv"
                /\ jobs[i].cmd.output = "submission.csv"
        /\ jobs[i].script_type = "train" =>
                /\ jobs[i].cmd.script = "train.py"
                /\ jobs[i].cmd.input = "" /\ jobs[i].cmd.output = ""

C18_Witness ==
    /\ Len(jobs) = 2
    /\ jobs[1].script_type = "train" /\ jobs[2].script_type = "inference"

---------------------------------------------------------------------------
(* Properties of parse_env_var_values *)

IsReference(v) ==
    v.type = "str" /\ v.ns \in {"secrets", "env"} /\ ~v.pre /\ ~v.post

BeginsWithReference(v) ==
    v.type = "str" /\ v.ns \in {"secrets", "env"} /\ ~v.pre

Unset(v) == environ[v.name] = "unset"

\* what C14 says of the values picked out by Referencing
ParseContract(Referencing(_)) ==
    /\ parsed.status = "returned" =>
            /\ DOMAIN dictionary = DOMAIN given
            /\ \A k \in DOMAIN given :
                    IF Referencing(given[k])
                    THEN /\ ~Unset(given[k])
                         /\ dictionary[k] = EnvValue(given[k].name, environ[given[k].name])
                    ELSE dictionary[k] = given[k]
    /\ parsed.status # "" =>
            /\ parsed.status = "ValueError"
                    <=> \E k \in DOMAIN given : Referencing(given[k]) /\ Unset(given[k])
            /\ parsed.status = "ValueError" =>
                    \E k \in DOMAIN given :
                        /\ Referencing(given[k]) /\ Unset(given[k])
                        /\ parsed.env_var = given[k].name

\* C14 (as stated): after a successful return every value that is a reference
\* to an environment variable holds the value of that variable, every other
\* value and the key set are unchanged; the call raises ValueError, naming an
\* unset variable, exactly when a reference names a variable that is not set.
C14_ReferencesReplaced == ParseContract(IsReference)

\* C14 (amended): the same for the values that are strings beginning with a
\* reference, whatever follows the reference; such a value is replaced as a
\* whole.
C14_LeadingReferencesReplaced == ParseContract(BeginsWithReference)

C14_Witness ==
    /\ parsed.status = "returned" /\ Len(given) = 3
    /\ given[1] = Text("plain") /\ given[2] = Ref("env", "B") /\ given[3] = Ref("secrets", "A")
    /\ environ["A"] = "dotenv" /\ environ["B"] = "os"
    /\ dictionary[2] = EnvValue("B", "os") /\ dictionary[3] = EnvValue("A", "dotenv")

FirstUnset ==
    CHOOSE k \in DOMAIN given :
        /\ BeginsWithReference(given[k]) /\ Unset(given[k])
        /\ \A j \in 1..(k - 1) : ~(BeginsWithReference(given[j]) /\ Unset(given[j]))

\* C19 (as stated): when parse_env_var_values raises ValueError the dictionary
\* is as it was handed over.
C19_UnchangedOnError == parsed.status = "ValueError" => dictionary = given

\* C19 (amended): when parse_env_var_values raises ValueError the key set is
\* unchanged, the value that names the unset variable and every value after it
\* in iteration order are unchanged, and the values before it that begin with a
\* reference have already been replaced.
C19_TailUnchangedOnError ==
    parsed.status = "ValueError" =>
        /\ DOMAIN dictionary = DOMAIN given
        /\ parsed.env_var = given[FirstUnset].name
        /\ \A k \in DOMAIN given :
                IF k < FirstUnset /\ BeginsWithReference(given[k])
                THEN dictionary[k] = EnvValue(given[k].name, environ[given[k].name])
                ELSE dictionary[k] = given[k]

C19_Witness ==
    /\ parsed.status = "ValueError" /\ parsed.env_var = "B"
    /\ Len(given) = 3
    /\ given[1] = Ref("secrets", "A") /\ given[2] = Ref("env", "B")
    /\ dictionary[1] # given[1] /\ dictionary[2] = given[2] /\ dictionary[3] = given[3]

---------------------------------------------------------------------------
(* Properties of runs that share the environment name *)

UsingEnv == Provisioned /\ pc \in {"train", "inference", "delete_203", "delete_215", "delete_219"}
PeerUsingEnv == peer \in {"jobs", "delete"}

\* C13: no run issues conda env create while the environment of its name
\* exists, and no run removes the environment while the other run, still
\* active, is using it.
C13_OneEnvPerName ==
    [][ /\ (pc = "create" /\ pc' # "create") => EnvName(run_name) \notin envs
        /\ (peer = "idle" /\ peer' # "idle") => EnvName("oneshot") \notin envs
        /\ (UsingEnv /\ pc' \in {"returned", "raised"} /\ envs' # envs) => ~PeerUsingEnv
        /\ (peer = "delete" /\ peer' = "ended" /\ envs' # envs) => ~UsingEnv ]_vars

====
